---- MODULE Spec2Model ----
(***************************************************************************)
(* Model of the user service of first-steps: the UserRepository            *)
(* (src/repositories/user_repository.py) and the two router handlers       *)
(* (src/routers/user_router.py) over a MongoDB database holding the        *)
(* collections "users" and "counters" (src/utils/collections.py).          *)
(*                                                                         *)
(* Every request is a coroutine.  A coroutine runs without interruption    *)
(* from one await to the next, so each action below is one awaited storage *)
(* operation together with the synchronous code that follows it up to the  *)
(* next await.  The storage operations themselves are atomic.              *)
(***************************************************************************)
EXTENDS Integers, Sequences, FiniteSets, TLC

\* Number of requests (coroutines) that may be in flight.
NCalls == 3
\* Number of distinct tokens generate_short_hex_id can produce.
NIds == 2

Procs == 1..NCalls
Ids == 1..NIds

\* The absence sentinel returned by get_user_by_id (Python None).
None == [id |-> 0, user_index |-> 0, name |-> ""]

VARIABLES
    indexes,      \* names of the unique indexes that exist on users
    users,        \* documents of the users collection
    counters,     \* documents of the counters collection
    initialized,  \* self._initialized of every repository instance
    pc,           \* the await each request is suspended at
    op,           \* "add" (POST /users/) or "get" (GET /users/{user_id})
    inst,         \* the repository instance a request calls
    user_db,      \* add_user: the UserDB being built
    seq,          \* _get_next_user_index: the local seq
    user_id,      \* get_user_by_id: the id looked up
    ret,          \* what the repository call returned
    status,       \* HTTP status of the response, 0 while in flight
    hist          \* observations of the run, read by the properties only

vars == <<indexes, users, counters, initialized, pc, op, inst, user_db, seq,
          user_id, ret, status, hist>>

----------------------------------------------------------------------------
(* Storage operations (MongoDB), each atomic.                              *)

\* The field a unique index constrains.
IndexField(n) == IF n = "uniq_id" THEN "id" ELSE "user_index"

\* create_index(field, unique=True, name=n): idempotent when n exists.
create_index(idxs, n) == idxs \cup {n}

\* Line 32 without unique=True: the index constrains nothing.
EnsureIdNotUnique(idxs) == idxs

\* _initialize, line 32: create_index("id", unique=True, name="uniq_id").
EnsureUniqId(idxs) == create_index(idxs, "uniq_id")

\* Line 33 without unique=True: the index constrains nothing.
EnsureUserIndexNotUnique(idxs) == idxs

\* Line 33 repeating the arguments of line 32: no constraint on
\* user_index is created.
EnsureIdAgain(idxs) == create_index(idxs, "uniq_id")

\* _initialize, line 33:
\* create_index("user_index", unique=True, name="uniq_user_index").
EnsureUniqUserIndex(idxs) == create_index(idxs, "uniq_user_index")

\* find_one_and_update({"_id": "user_index"}, {"$inc": {"seq": 1}},
\* upsert=True): the counters collection after the operation.
find_one_and_update(cs) ==
    IF \E c \in cs : c._id = "user_index"
    THEN {IF c._id = "user_index" THEN [c EXCEPT !.seq = @ + 1] ELSE c : c \in cs}
    ELSE cs \cup {[_id |-> "user_index", seq |-> 1]}

\* return_document=ReturnDocument.BEFORE: the seq before the increment
\* (the default 1 of line 45 when there was no document).
SeqBefore(cs) ==
    LET s == (CHOOSE c \in cs : c._id = "user_index").seq IN
    IF s = 1 THEN 1 ELSE s - 1

\* return_document=ReturnDocument.AFTER, line 45: the seq of the document
\* after the increment.
SeqOf(cs) == (CHOOSE c \in cs : c._id = "user_index").seq

\* update_one({"_id": "user_index"}, {"$set": {"seq": 1}}, upsert=True)
update_one(cs) ==
    IF \E c \in cs : c._id = "user_index"
    THEN {IF c._id = "user_index" THEN [c EXCEPT !.seq = 1] ELSE c : c \in cs}
    ELSE cs \cup {[_id |-> "user_index", seq |-> 1]}

\* The unique indexes an insert of doc would violate (DuplicateKeyError
\* is raised when the set is not empty).
DuplicateKey(us, idxs, doc) ==
    {n \in idxs : \E u \in us : u[IndexField(n)] = doc[IndexField(n)]}

\* Line 58 as replace_one({"name": ...}, document, upsert=True): the
\* document takes the place of a stored one with the same name.
replace_one_by_name(us, doc) == {u \in us : u.name # doc.name} \cup {doc}

\* insert_one(document) when no unique index is violated; the storage gives
\* the document its own _id (here: the number of the inserting request).
insert_one(us, doc) == us \cup {doc}

\* UserOut(**doc): the fields of the response model.
UserOut(doc) == [id |-> doc.id, user_index |-> doc.user_index, name |-> doc.name]

\* Line 72 with the filter {"user_index": user_id}.
find_one_by_index(us, uid) ==
    IF \E u \in us : u.user_index = uid
    THEN UserOut(CHOOSE u \in us : u.user_index = uid)
    ELSE None

\* find_one({"id": user_id}, {"_id": 0}) followed by lines 73-76.
find_one(us, uid) ==
    IF \E u \in us : u.id = uid
    THEN UserOut(CHOOSE u \in us : u.id = uid)
    ELSE None

\* model_dump() of the UserDB of request p, as stored.
Document(p, udb) ==
    [_id |-> p, id |-> udb.id, user_index |-> udb.user_index, name |-> udb.name]

\* The tokens generate_short_hex_id() may return.
generate_short_hex_id == Ids

----------------------------------------------------------------------------
(* The service starts on an empty database: no collection, no index.       *)

Init ==
    /\ indexes = {}
    /\ users = {}
    /\ counters = {}
    /\ initialized = [i \in Procs |-> FALSE]
    /\ pc = [p \in Procs |-> "idle"]
    /\ op = [p \in Procs |-> "none"]
    /\ inst = [p \in Procs |-> 0]
    /\ user_db = [p \in Procs |-> None]
    /\ seq = [p \in Procs |-> 0]
    /\ user_id = [p \in Procs |-> 0]
    /\ ret = [p \in Procs |-> None]
    /\ status = [p \in Procs |-> 0]
    /\ hist = [issued |-> << >>,
               overlap |-> FALSE,
               creates |-> [i \in Procs |-> 0],
               incs |-> [p \in Procs |-> 0],
               inserts |-> [p \in Procs |-> 0],
               regens |-> [p \in Procs |-> 0],
               first |-> [p \in Procs |-> {}],
               fresh |-> [p \in Procs |-> FALSE]]

----------------------------------------------------------------------------
(* Requests.  Request numbers are labels: request p + 1 arrives after      *)
(* request p has arrived.                                                  *)

Arrives(p) == pc[p] = "idle" /\ (IF p = 1 THEN TRUE ELSE pc[p - 1] # "idle")

Active(q) == pc[q] \notin {"idle", "done", "err"}

\* get_user_repository (router, lines 14-16) builds a new UserRepository
\* for every request: request p calls instance p.
Depends(p) == {p}

\* A caller that keeps a UserRepository may call it again, also while an
\* earlier call on it is suspended: a new instance or one in use.
Instances(p) == {p} \cup {inst[q] : q \in {r \in Procs : pc[r] # "idle"}}

\* Lines 29-30 with the test inverted: the call returns at once.
AfterFlagInverted(i, next) == IF initialized[i] THEN "idx1" ELSE next

\* _initialize, lines 29-30: where the call continues after the flag test.
AfterFlag(i, next) == IF initialized[i] THEN next ELSE "idx1"

\* The body of request p (UserCreate): the name of the user to create.
Payload(p) == IF p % 2 = 1 THEN "Ana" ELSE "Bo"

\* UserDB(**payload.model_dump()): the id is generated by the model.
UserDB(n, g) == [id |-> g, user_index |-> 0, name |-> n]

\* add_user up to its first await (lines 51-54 when the flag is set).
AddUserOn(p, I) ==
    /\ Arrives(p)
    /\ \E i \in I, n \in {Payload(p)} :
          /\ op' = [op EXCEPT ![p] = "add"]
          /\ inst' = [inst EXCEPT ![p] = i]
          /\ pc' = [pc EXCEPT ![p] = AfterFlag(i, "inc")]
          /\ IF initialized[i]
             THEN \E g \in generate_short_hex_id :
                     user_db' = [user_db EXCEPT ![p] = UserDB(n, g)]
             ELSE user_db' = [user_db EXCEPT ![p] = [None EXCEPT !.name = n]]
    /\ hist' = [hist EXCEPT
                   !.overlap = @ \/ \E q \in Procs : op[q] = "add" /\ Active(q)]
    /\ UNCHANGED <<indexes, users, counters, initialized, seq, user_id, ret, status>>

\* get_user_by_id up to its first await (lines 70-72 when the flag is set).
GetUserByIdOn(p, I) ==
    /\ Arrives(p)
    /\ \E i \in I, uid \in Ids :
          /\ op' = [op EXCEPT ![p] = "get"]
          /\ inst' = [inst EXCEPT ![p] = i]
          /\ pc' = [pc EXCEPT ![p] = AfterFlag(i, "find")]
          /\ user_id' = [user_id EXCEPT ![p] = uid]
    /\ UNCHANGED <<indexes, users, counters, initialized, user_db, seq, ret, status, hist>>

\* create_user and get_user of the router: the call on the request's own
\* repository.
AddUser(p) == AddUserOn(p, Depends(p))
GetUserById(p) == GetUserByIdOn(p, Depends(p))

\* The same calls on a repository that may be shared between calls.
AddUserShared(p) == AddUserOn(p, Instances(p))
GetUserByIdShared(p) == GetUserByIdOn(p, Instances(p))

\* A unique index on field f can be built only over distinct values.
CanBuild(us, n) ==
    \A u, v \in us : u[IndexField(n)] = v[IndexField(n)] => u = v

\* _initialize, line 32: the first create_index is executed.
CreateIndexId(p) ==
    /\ pc[p] = "idx1"
    /\ IF CanBuild(users, "uniq_id")
       THEN /\ indexes' = EnsureUniqId(indexes)
            /\ pc' = [pc EXCEPT ![p] = "idx2"]
            /\ status' = status
       ELSE /\ indexes' = indexes
            /\ pc' = [pc EXCEPT ![p] = "err"]
            /\ status' = [status EXCEPT ![p] = 500]
    /\ hist' = [hist EXCEPT !.creates[inst[p]] = @ + 1]
    /\ UNCHANGED <<users, counters, initialized, op, inst, user_db, seq, user_id, ret>>

\* _initialize, lines 33-34, then the caller up to its next await.
CreateIndexUserIndex(p) ==
    /\ pc[p] = "idx2"
    /\ IF CanBuild(users, "uniq_user_index")
       THEN /\ indexes' = EnsureUniqUserIndex(indexes)
            /\ initialized' = [initialized EXCEPT ![inst[p]] = TRUE]
            /\ pc' = [pc EXCEPT ![p] = IF op[p] = "add" THEN "inc" ELSE "find"]
            /\ IF op[p] = "add"
               THEN \E g \in generate_short_hex_id :
                       user_db' = [user_db EXCEPT ![p] = UserDB(@.name, g)]
               ELSE user_db' = user_db
            /\ status' = status
       ELSE /\ indexes' = indexes
            /\ initialized' = initialized
            /\ pc' = [pc EXCEPT ![p] = "err"]
            /\ user_db' = user_db
            /\ status' = [status EXCEPT ![p] = 500]
    /\ UNCHANGED <<users, counters, op, inst, seq, user_id, ret, hist>>

\* _get_next_user_index, lines 39-46 (and 49, 54-58 when seq is not 1).
GetNextUserIndex(p) ==
    /\ pc[p] = "inc"
    /\ counters' = find_one_and_update(counters)
    /\ LET s == SeqOf(counters') IN
          /\ seq' = [seq EXCEPT ![p] = s]
          /\ pc' = [pc EXCEPT ![p] = IF s = 1 THEN "fix" ELSE "ins1"]
          /\ user_db' = [user_db EXCEPT ![p].user_index = IF s = 1 THEN @ ELSE s]
          /\ hist' = [hist EXCEPT !.issued = Append(@, s),
                                  !.incs[p] = @ + 1]
    /\ UNCHANGED <<indexes, users, initialized, op, inst, user_id, ret, status>>

\* _get_next_user_index, lines 48-49, then add_user lines 54-58.
CorrectiveWrite(p) ==
    /\ pc[p] = "fix"
    /\ counters' = update_one(counters)
    /\ user_db' = [user_db EXCEPT ![p].user_index = seq[p]]
    /\ pc' = [pc EXCEPT ![p] = "ins1"]
    /\ UNCHANGED <<indexes, users, initialized, op, inst, seq, user_id, ret, status, hist>>

\* Lines 59-65 retrying from line 54: the except branch takes a new
\* user_index as well as a new id, and inserts again from line 58.
InsertOneReassign(p) ==
    /\ pc[p] = "ins1"
    /\ LET doc == Document(p, user_db[p])
           dup == DuplicateKey(users, indexes, doc) IN
          IF dup = {}
          THEN /\ users' = insert_one(users, doc)
               /\ ret' = [ret EXCEPT ![p] = UserOut(user_db[p])]
               /\ status' = [status EXCEPT ![p] = 200]
               /\ pc' = [pc EXCEPT ![p] = "done"]
               /\ user_db' = user_db
               /\ hist' = [hist EXCEPT !.inserts[p] = @ + 1]
          ELSE /\ hist.incs[p] < 2
               /\ \E g \in generate_short_hex_id :
                      user_db' = [user_db EXCEPT ![p].id = g]
               /\ pc' = [pc EXCEPT ![p] = "inc"]
               /\ hist' = [hist EXCEPT !.inserts[p] = @ + 1,
                                       !.regens[p] = @ + 1,
                                       !.first[p] = dup]
               /\ UNCHANGED <<users, ret, status>>
    /\ UNCHANGED <<indexes, counters, initialized, op, inst, seq, user_id>>

\* add_user, lines 58-64 (and 67-68 when the insert succeeds).
InsertOne(p) ==
    /\ pc[p] = "ins1"
    /\ LET doc == Document(p, user_db[p])
           dup == DuplicateKey(users, indexes, doc) IN
          IF dup = {}
          THEN /\ users' = insert_one(users, doc)
               /\ ret' = [ret EXCEPT ![p] = UserOut(user_db[p])]
               /\ status' = [status EXCEPT ![p] = 200]
               /\ pc' = [pc EXCEPT ![p] = "done"]
               /\ user_db' = user_db
               /\ hist' = [hist EXCEPT !.inserts[p] = @ + 1]
          ELSE /\ \E g \in generate_short_hex_id :
                      user_db' = [user_db EXCEPT ![p].id = g]
               /\ pc' = [pc EXCEPT ![p] = "ins2"]
               /\ hist' = [hist EXCEPT !.inserts[p] = @ + 1,
                                       !.regens[p] = @ + 1,
                                       !.first[p] = dup]
               /\ UNCHANGED <<users, ret, status>>
    /\ UNCHANGED <<indexes, counters, initialized, op, inst, seq, user_id>>

\* Lines 63-65 in a loop: a failed retry regenerates the id and retries.
RetryInsertOneLoop(p) ==
    /\ pc[p] = "ins2"
    /\ LET doc == Document(p, user_db[p])
           dup == DuplicateKey(users, indexes, doc) IN
          /\ hist' = [hist EXCEPT !.inserts[p] = @ + 1,
                                  !.fresh[p] = \A u \in users : u.id # doc.id]
          /\ IF dup = {}
             THEN /\ users' = insert_one(users, doc)
                  /\ ret' = [ret EXCEPT ![p] = UserOut(user_db[p])]
                  /\ status' = [status EXCEPT ![p] = 200]
                  /\ pc' = [pc EXCEPT ![p] = "done"]
                  /\ user_db' = user_db
             ELSE /\ hist.inserts[p] < 3
                  /\ \E g \in generate_short_hex_id :
                         user_db' = [user_db EXCEPT ![p].id = g]
                  /\ UNCHANGED <<users, ret, status, pc>>
    /\ UNCHANGED <<indexes, counters, initialized, op, inst, seq, user_id>>

\* add_user, lines 65-68: the one retry; its DuplicateKeyError is not caught.
RetryInsertOne(p) ==
    /\ pc[p] = "ins2"
    /\ LET doc == Document(p, user_db[p])
           dup == DuplicateKey(users, indexes, doc) IN
          /\ hist' = [hist EXCEPT !.inserts[p] = @ + 1,
                                  !.fresh[p] = \A u \in users : u.id # doc.id]
          /\ IF dup = {}
             THEN /\ users' = insert_one(users, doc)
                  /\ ret' = [ret EXCEPT ![p] = UserOut(user_db[p])]
                  /\ status' = [status EXCEPT ![p] = 200]
                  /\ pc' = [pc EXCEPT ![p] = "done"]
             ELSE /\ status' = [status EXCEPT ![p] = 500]
                  /\ pc' = [pc EXCEPT ![p] = "err"]
                  /\ UNCHANGED <<users, ret>>
    /\ UNCHANGED <<indexes, counters, initialized, op, inst, user_db, seq, user_id>>

\* Line 30 with the test inverted.
get_user_inverted(user) == IF user = None THEN 200 ELSE 404

\* The router's get_user, lines 30-32: the status of the response.
get_user(user) == IF user = None THEN 404 ELSE 200

\* get_user_by_id, lines 72-76, then the router's get_user, lines 30-32.
FindOne(p) ==
    /\ pc[p] = "find"
    /\ ret' = [ret EXCEPT ![p] = find_one(users, user_id[p])]
    /\ status' = [status EXCEPT ![p] = get_user(ret'[p])]
    /\ pc' = [pc EXCEPT ![p] = "done"]
    /\ UNCHANGED <<indexes, users, counters, initialized, op, inst, user_db, seq, user_id, hist>>

Next ==
    \E p \in Procs :
        \/ AddUser(p)
        \/ GetUserById(p)
        \/ CreateIndexId(p)
        \/ CreateIndexUserIndex(p)
        \/ GetNextUserIndex(p)
        \/ CorrectiveWrite(p)
        \/ InsertOne(p)
        \/ RetryInsertOne(p)
        \/ FindOne(p)

Spec == Init /\ [][Next]_vars

\* A step of request p after its arrival: the storage completes the
\* awaited operation and the event loop resumes the coroutine.
Resume(p) ==
    \/ CreateIndexId(p)
    \/ CreateIndexUserIndex(p)
    \/ GetNextUserIndex(p)
    \/ CorrectiveWrite(p)
    \/ InsertOne(p)
    \/ RetryInsertOne(p)
    \/ FindOne(p)

\* Every awaited storage operation completes and the event loop does not
\* stay idle while a coroutine is ready: as long as some request can be
\* resumed, one is.  Requests need not arrive.
FairSpec == Spec /\ WF_vars(\E p \in Procs : Resume(p))

\* The repository class used directly, its instances shared between calls.
NextShared ==
    \E p \in Procs :
        \/ AddUserShared(p)
        \/ GetUserByIdShared(p)
        \/ CreateIndexId(p)
        \/ CreateIndexUserIndex(p)
        \/ GetNextUserIndex(p)
        \/ CorrectiveWrite(p)
        \/ InsertOne(p)
        \/ RetryInsertOne(p)
        \/ FindOne(p)

SpecShared == Init /\ [][NextShared]_vars

----------------------------------------------------------------------------
(* Properties.                                                             *)

Adds == {p \in Procs : op[p] = "add"}
Gets == {p \in Procs : op[p] = "get"}
Finished(p) == pc[p] \in {"done", "err"}

\* The number of add_user calls up to and including request p.
CallNo(p) == Cardinality({q \in 1..p : op[q] = "add"})

\* C1: the values returned by the atomic increments, in the order of the
\* increments, are strictly increasing (so no value is issued twice).
C1_StrictlyIncreasing ==
    \A i, j \in 1..Len(hist.issued) :
        i < j => hist.issued[i] < hist.issued[j]

\* C2: when N add_user calls have all run to completion on a store whose
\* counter was absent, the user_index values assigned to them are exactly
\* 1..N.
C2_DenseIndexes ==
    (Adds # {} /\ \A p \in Procs : pc[p] # "idle" /\ (p \in Adds => Finished(p)))
        => {seq[p] : p \in Adds} = 1..Cardinality(Adds)

\* C3: no two stored user documents have the same user_index.
C3_UniqueUserIndex ==
    \A u, v \in users : u.user_index = v.user_index => u = v

\* C3 witness: two users are stored and an insert carrying an already
\* stored user_index was attempted and rejected.
C3_Witness ==
    /\ Cardinality(users) >= 2
    /\ \E p \in Adds : "uniq_user_index" \in hist.first[p]

\* C4: no two stored user documents have the same id.
C4_UniqueId ==
    \A u, v \in users : u.id = v.id => u = v

\* C4 witness: two users are stored and a generated id collided with a
\* stored one.
C4_Witness ==
    /\ Cardinality(users) >= 2
    /\ \E p \in Adds : "uniq_id" \in hist.first[p]

\* C5: a call whose first insert violated the constraint on id and whose
\* regenerated id was not stored at the retry regenerated once, inserted
\* twice, succeeded, kept its user_index and incremented the counter once.
C5_RetryOnceSucceeds ==
    \A p \in Adds :
        (Finished(p) /\ "uniq_id" \in hist.first[p] /\ hist.fresh[p])
            => /\ pc[p] = "done"
               /\ hist.regens[p] = 1
               /\ hist.inserts[p] = 2
               /\ hist.incs[p] = 1
               /\ ret[p].user_index = seq[p]
               /\ Document(p, user_db[p]) \in users

\* C6: the step in which the retry of a call also meets a uniqueness
\* violation ends the call in an error with no result, after two inserts,
\* with none of its documents stored and the counter left as it is; the
\* failed call then takes no further step (no third insert).
C6_SecondFailureIsFatal ==
    [][\A p \in Adds :
          /\ (pc[p] = "ins2" /\ pc'[p] # "ins2"
                /\ DuplicateKey(users, indexes, Document(p, user_db[p])) # {})
                => /\ pc'[p] = "err"
                   /\ ret'[p] = None
                   /\ status'[p] = 500
                   /\ hist'.inserts[p] = 2
                   /\ hist'.incs[p] = 1
                   /\ users' = users
                   /\ counters' = counters
                   /\ \A u \in users' : u._id # p
          /\ (pc[p] = "ins2" /\ hist'.inserts[p] # hist.inserts[p])
                => pc'[p] \in {"done", "err"}
          /\ pc[p] = "err"
                => /\ pc'[p] = "err"
                   /\ hist'.inserts[p] = hist.inserts[p]
                   /\ hist'.incs[p] = hist.incs[p]
                   /\ \A u \in users' : u._id # p]_vars

\* C6 witness: a call has failed on both inserts.
C6_Witness ==
    \E p \in Adds :
        pc[p] = "err" /\ hist.inserts[p] = 2 /\ hist.first[p] # {}

\* C7: a lookup executed after add_user returned a record, with the id of
\* that record, returns exactly that record (and does not fail).
C7_ReadYourCreate ==
    [][\A g \in Gets :
          /\ pc'[g] # "err"
          /\ (pc[g] = "find" /\ pc'[g] = "done")
                => \A p \in Adds :
                      (pc[p] = "done" /\ ret[p].id = user_id[g])
                          => /\ ret'[g] = ret[p]
                             /\ ret'[g].name = Payload(p)
                             /\ ret'[g].user_index = seq[p]]_vars

\* C7 witness: a lookup returned the record of a call that had retried
\* with a regenerated id.
C7_Witness ==
    \E g \in Gets, p \in Adds :
        /\ pc[g] = "done" /\ pc[p] = "done"
        /\ hist.regens[p] = 1
        /\ ret[g] = ret[p]

\* C8: a lookup answers None and 404 exactly when no stored document has
\* the id, and never ends in an error.
C8_NotFoundIffAbsent ==
    [][\A g \in Gets :
          /\ pc'[g] # "err"
          /\ (pc[g] = "find" /\ pc'[g] = "done")
                => IF \E u \in users : u.id = user_id[g]
                   THEN ret'[g] # None /\ status'[g] = 200
                   ELSE ret'[g] = None /\ status'[g] = 404]_vars

\* C8 witness: one lookup was answered 404 and another found its user.
C8_Witness ==
    \E g, h \in Gets :
        /\ pc[g] = "done" /\ status[g] = 404
        /\ pc[h] = "done" /\ status[h] = 200

\* C9: every repository instance executes the create_index pair at most
\* once.
C9_CreateIndexOnce ==
    \A i \in Procs : hist.creates[i] <= 1

\* C10: while no two add_user calls have overlapped, the n-th increment
\* returned n, the counter holds the number of increments, and the n-th
\* add_user call carries user_index n.
C10_SequentialIndexes ==
    ~hist.overlap =>
        /\ \A n \in 1..Len(hist.issued) : hist.issued[n] = n
        /\ Len(hist.issued) >= 1 =>
              counters = {[_id |-> "user_index", seq |-> Len(hist.issued)]}
        /\ \A p \in Adds :
              /\ hist.incs[p] = 1 => seq[p] = CallNo(p)
              /\ pc[p] \in {"ins1", "ins2", "done", "err"}
                    => user_db[p].user_index = CallNo(p)
              /\ pc[p] = "done" => ret[p].user_index = CallNo(p)

\* C10 witness: two add_user calls ran one after the other and stored the
\* users with user_index 1 and 2.
C10_Witness ==
    /\ ~hist.overlap
    /\ \E p, q \in Adds :
          /\ pc[p] = "done" /\ ret[p].user_index = 1
          /\ pc[q] = "done" /\ ret[q].user_index = 2

\* The two uniqueness constraints _initialize ensures.
Constraints == {"uniq_id", "uniq_user_index"}

\* C11: no step removes or changes a stored user document: every document
\* of users is, unchanged, a document of users after the step.
C11_UsersOnlyGrow ==
    [][/\ users \subseteq users'
       /\ \A v \in users' \ users : \A u \in users : u._id # v._id]_vars

\* C11 witness: a user was stored, and later calls inserted a second
\* user and looked one up.
C11_Witness ==
    /\ Cardinality(users) >= 2
    /\ \E g \in Gets : pc[g] = "done"

\* C12: no initialization fails, the indexes on users are never other
\* than the two constraints, and once any instance is initialized both
\* exist, however many instances have been initialized.
C12_InitializeIdempotent ==
    /\ indexes \subseteq Constraints
    /\ (\E i \in Procs : initialized[i]) => indexes = Constraints
    /\ \A p \in Procs : pc[p] = "err" => hist.inserts[p] = 2

\* C12 witness: every request's own instance has been initialized, some
\* of them after users were stored.
C12_Witness ==
    /\ \A i \in Procs : initialized[i]
    /\ users # {}
    /\ \A i \in Procs : hist.creates[i] = 1
    /\ indexes = Constraints

\* The largest value the increments have returned so far (0: none).
LastIssued ==
    IF hist.issued = << >> THEN 0
    ELSE CHOOSE m \in {hist.issued[n] : n \in 1..Len(hist.issued)} :
             \A n \in 1..Len(hist.issued) : hist.issued[n] <= m

\* C13: when the counter record exists its seq is the largest value ever
\* issued, and no stored user has a larger user_index.
C13_SeqIsLastIssued ==
    counters # {} =>
        /\ SeqOf(counters) = LastIssued
        /\ \A u \in users : u.user_index <= SeqOf(counters)

\* C14: whenever a corrective write is about to execute, the counter's
\* seq is 1, so the write changes nothing.
C14_CorrectiveWriteNoOp ==
    \A p \in Procs : pc[p] = "fix" => update_one(counters) = counters

\* C15: no first insert is rejected by the constraint on user_index, and
\* no pending insert would be.
C15_NoUserIndexViolation ==
    \A p \in Adds :
        /\ "uniq_user_index" \notin hist.first[p]
        /\ pc[p] \in {"ins1", "ins2"} =>
              "uniq_user_index" \notin
                  DuplicateKey(users, indexes, Document(p, user_db[p]))

\* C16: a call increments the counter only after its instance is
\* initialized and both constraints exist, before any of its inserts, and
\* inserts only after that increment, the constraints still existing.
C16_InitializeIncrementInsert ==
    [][\A p \in Procs :
          /\ hist'.incs[p] # hist.incs[p]
                => /\ Constraints \subseteq indexes
                   /\ initialized[inst[p]]
                   /\ hist.inserts[p] = 0
          /\ hist'.inserts[p] # hist.inserts[p]
                => /\ Constraints \subseteq indexes
                   /\ initialized[inst[p]]
                   /\ hist.incs[p] = 1
          /\ (counters' # counters \/ users' # users)
                => Constraints \subseteq indexes]_vars

\* C16 witness: a call has incremented and inserted while another request
\* has not yet created the constraints on its own instance.
C16_Witness ==
    \E p \in Adds, q \in Procs :
        /\ hist.incs[p] = 1 /\ hist.inserts[p] >= 1
        /\ pc[q] = "idx1"

\* C17: every add_user call that has started finishes (a finished call
\* stays finished, so: again and again all the calls started so far have
\* finished), and at every moment a call has incremented the counter at
\* most once and inserted at most twice; when finished, it has incremented
\* exactly once and inserted once or twice.
C17_AddUserTerminates ==
    /\ []<>(\A p \in Adds : Finished(p))
    /\ [](\A p \in Adds :
             /\ hist.incs[p] <= 1
             /\ hist.inserts[p] <= 2
             /\ Finished(p) => hist.incs[p] = 1 /\ hist.inserts[p] \in {1, 2})

\* C17 witness: all requests were add_user calls running concurrently and
\* all have finished, one of them in an error after its retry.
C17_Witness ==
    /\ Adds = Procs
    /\ hist.overlap
    /\ \A p \in Procs : Finished(p)
    /\ \E p \in Procs : pc[p] = "err" /\ hist.inserts[p] = 2

====
